---- MODULE Spec2Model ----
(***************************************************************************)
(* A model of groq-builder's projection compiler: the immutable           *)
(* GroqBuilder node (query text + parser), parser chaining, the           *)
(* projection field normalizer, `project`, and the combined projection    *)
(* parser.                                                                 *)
(*                                                                         *)
(* Encoding of JavaScript values (every value is a record whose single    *)
(* field name is its tag, so that values of different kinds compare):     *)
(*   [num |-> n]        a number                                           *)
(*   [str |-> s]        a string                                           *)
(*   [obj |-> f]        a plain object, f a function from its own keys     *)
(*   [list |-> s]       an array                                           *)
(*   [null |-> TRUE]    null                                               *)
(*   [error |-> e, message |-> m]   a thrown error (the call's outcome)    *)
(* Parsers are functions in the code; here a parser is the term that       *)
(* built it, and Apply runs it:                                            *)
(*   [fn |-> name]            a leaf validation function                   *)
(*   [parseObj |-> name]      a validation object with a .parse method     *)
(*   [wraps |-> name]         (input) => parser.parse(input)               *)
(*   [first |-> a, second |-> b]   (input) => b(a(input))                  *)
(*   [projection |-> fields]  the projectionParser closure over `fields`   *)
(***************************************************************************)
EXTENDS Integers, Sequences, FiniteSets, TLC

VARIABLES nodes, log, err, call, ret

vars == <<nodes, log, err, call, ret>>

\* ------------------------------------------------------------------ bounds
MaxNodes == 3
MaxFields == 2
MaxList == 2

\* ------------------------------------------------------------ basic values
NULL == [null |-> TRUE]
NONE == [none |-> TRUE]

Num(n) == [num |-> n]
Str(s) == [str |-> s]
Obj(f) == [obj |-> f]
List(s) == [list |-> s]
Throw(e, m) == [error |-> e, message |-> m]

IsError(v) == "error" \in DOMAIN v
IsObj(v) == "obj" \in DOMAIN v
IsList(v) == "list" \in DOMAIN v
IsNum(v) == "num" \in DOMAIN v

EmptyObject == [k \in {} |-> NULL]

IsPrefix(s, t) == Len(s) <= Len(t) /\ SubSeq(t, 1, Len(s)) = s

RECURSIVE Join(_, _)
Join(strs, sep) ==
  IF Len(strs) = 0 THEN ""
  ELSE IF Len(strs) = 1 THEN strs[1]
  ELSE strs[1] \o sep \o Join(Tail(strs), sep)

Map(s, F(_)) == [i \in 1..Len(s) |-> F(s[i])]

notNull(v) == v # NULL

\* --------------------------------------------------------- leaf validators
\* Leaf validators are external black boxes of shape value -> parsed value,
\* failing on input of the wrong shape.  Two that do not commute stand for
\* them: Inc (n -> n + 1) and Dbl (n -> 2n), both defined on numbers only.
LeafNames == {"Inc", "Dbl"}

LeafApply(name, x) ==
  IF ~IsNum(x) THEN Throw("ValidationError", "Expected number (" \o name \o ")")
  ELSE IF name = "Inc" THEN Num(x.num + 1)
  ELSE Num(2 * x.num)

\* isParser: a function, or an object with a parse method.
isParser(value) == "fn" \in DOMAIN value \/ "parseObj" \in DOMAIN value

\* normalizeValidationFunction: a function is returned as it is, a
\* validation object is wrapped into a function, null stays null.
normalizeValidationFunction(parser) ==
  IF "parseObj" \in DOMAIN parser THEN [wraps |-> parser.parseObj] ELSE parser

ConditionalPrefix == "[Conditional] "

\* isConditional(key): the key starts with the conditional marker.
isConditional(key) == IsPrefix(ConditionalPrefix, key)

\* chainParsers(a, b): both -> (input) => b(a(input)); otherwise a || b || null.
chainParsers(a, b) ==
  IF a # NULL /\ b # NULL THEN [first |-> a, second |-> b]
  ELSE IF a # NULL THEN a
  ELSE IF b # NULL THEN b
  ELSE NULL

\* ------------------------------------------------------------- GroqBuilder
GroqBuilder(query, parser, options) ==
  [query |-> query, parser |-> parser, options |-> options]

\* Mutants of chain: the fragment put in front of the query; the parsers
\* chained in the wrong order.
chainPrepends(this, query, parser) ==
  GroqBuilder(query \o this.query, chainParsers(this.parser, parser), this.options)

chainSwapsParsers(this, query, parser) ==
  GroqBuilder(this.query \o query, chainParsers(parser, this.parser), this.options)

\* chain(query, parser = null): a new node; `this` is only read.
chain(this, query, parser) ==
  GroqBuilder(this.query \o query, chainParsers(this.parser, parser), this.options)

\* The argument `parse?` of any(): UNDEFINED when the caller omits it.
UNDEFINED == [undefined |-> TRUE]

\* A default parameter value replaces an omitted (undefined) argument only.
DefaultNull(parse) == IF parse = UNDEFINED THEN NULL ELSE parse

any(this, query, parse) == chain(this, query, DefaultNull(parse))

\* this.root: a fresh builder with an empty query, no parser, same options.
root(this) == GroqBuilder("", NULL, this.options)

\* this.indentation: { newLine, space } from options.indent.
indentation(this) ==
  [newLine |-> IF this.options.indent = "" THEN " " ELSE "\n",
   space |-> this.options.indent]

\* ---------------------------------------------- normalizeProjectionField
\* A field configuration is one of
\*   [builder |-> node]   value instanceof GroqBuilder
\*   [string |-> s]       typeof value === "string"
\*   [boolean |-> b]      typeof value === "boolean"
\*   [array |-> <<..>>]   Array.isArray(value), elements are tagged values
\*   [fn |-> n], [parseObj |-> n]   isParser(value)
\*   [other |-> t]        anything else, t = typeof value
Quoted(key, expr) == "\"" \o key \o "\": " \o expr

NormalizedProjectionField(key, query, parser) ==
  [key |-> key, query |-> query, parser |-> parser]

\* Destructuring const [projectionKey, parser] = value.
ArrayProjectionKey(value) == value.array[1].str
ArrayParser(value) == value.array[2]

\* Mutant of the nested-builder fragment: the shorthand test is left out.
BuilderFieldQueryNoShorthand(key, value) ==
  IF isConditional(key) THEN value.builder.query
  ELSE Quoted(key, value.builder.query)

\* Mutant of the nested-builder fragment: the shorthand is used only for a
\* builder without a parser.
BuilderFieldQueryParserQuoted(key, value) ==
  IF isConditional(key) THEN value.builder.query
  ELSE IF key = value.builder.query /\ value.builder.parser = NULL THEN key
  ELSE Quoted(key, value.builder.query)

BuilderFieldQuery(key, value) ==
  IF isConditional(key) THEN value.builder.query
  ELSE IF key = value.builder.query THEN key
  ELSE Quoted(key, value.builder.query)

normalizeProjectionField(key, value) ==
  IF "builder" \in DOMAIN value THEN
    NormalizedProjectionField(key, BuilderFieldQuery(key, value), value.builder.parser)
  ELSE IF "string" \in DOMAIN value THEN
    NormalizedProjectionField(
      key, IF key = value.string THEN key ELSE Quoted(key, value.string), NULL)
  ELSE IF "boolean" \in DOMAIN value THEN
    IF value.boolean = FALSE THEN NULL
    ELSE NormalizedProjectionField(key, key, NULL)
  ELSE IF "array" \in DOMAIN value THEN
    NormalizedProjectionField(
      key,
      IF key = ArrayProjectionKey(value) THEN key
      ELSE Quoted(key, ArrayProjectionKey(value)),
      normalizeValidationFunction(ArrayParser(value)))
  ELSE IF isParser(value) THEN
    NormalizedProjectionField(key, key, normalizeValidationFunction(value))
  ELSE
    Throw("Error",
          "Unexpected value for projection key \"" \o key \o "\": \""
            \o value.other \o "\"")

\* ------------------------------------------------- createProjectionParser
\* Mutant: the early return for "no nested parsers" is left out.
createProjectionParserAlways(fields) == [projection |-> fields]

createProjectionParser(fields) ==
  IF ~(\E i \in 1..Len(fields) : fields[i].parser # NULL) THEN NULL
  ELSE [projection |-> fields]

\* Inside the closure: the normal fields' object shape and the conditional
\* fields' parsers, both in field order.
\* Mutant of the partition: every field is taken as a normal field.
IsNormalFieldAll(f) == TRUE

IsNormalField(f) == ~isConditional(f.key)
IsConditionalField(f) == isConditional(f.key)
HasParser(f) == f.parser # NULL
FieldParser(f) == f.parser
\* Mutant of the shape: every key is entered without its parser.
ShapeEntryNoParser(f) == [key |-> f.key, parser |-> NULL]

ShapeEntry(f) == [key |-> f.key, parser |-> f.parser]

objectShape(fields) == Map(SelectSeq(fields, IsNormalField), ShapeEntry)

conditionalParsers(fields) ==
  Map(SelectSeq(SelectSeq(fields, IsConditionalField), HasParser), FieldParser)

\* Mutant of the order: the conditional parsers come before the object parser.
combinedParsersConditionalFirst(fields) ==
  conditionalParsers(fields) \o <<[shape |-> objectShape(fields)]>>

combinedParsers(fields) ==
  <<[shape |-> objectShape(fields)]>> \o conditionalParsers(fields)

\* Object.assign(result, parsed): the own enumerable properties of parsed
\* are copied onto result; an array or a string contributes its indices, a
\* number or null contributes nothing.
IndexKeys(n) == {ToString(i - 1) : i \in 1..n}
IndexOf(k, n) == CHOOSE i \in 1..n : ToString(i - 1) = k

OwnProperties(parsed) ==
  IF IsObj(parsed) THEN parsed.obj
  ELSE IF IsList(parsed) THEN
    [k \in IndexKeys(Len(parsed.list)) |-> parsed.list[IndexOf(k, Len(parsed.list))]]
  ELSE IF "str" \in DOMAIN parsed THEN
    [k \in IndexKeys(Len(parsed.str)) |->
       LET i == IndexOf(k, Len(parsed.str)) IN Str(SubSeq(parsed.str, i, i))]
  ELSE EmptyObject

\* Mutant of the merge: a key that result already has keeps its value.
ObjectAssignKeepsExisting(result, parsed) ==
  LET props == OwnProperties(parsed) IN
  [k \in DOMAIN result \cup DOMAIN props |->
     IF k \in DOMAIN result THEN result[k] ELSE props[k]]

ObjectAssign(result, parsed) ==
  LET props == OwnProperties(parsed) IN
  [k \in DOMAIN result \cup DOMAIN props |->
     IF k \in DOMAIN props THEN props[k] ELSE result[k]]

RECURSIVE Apply(_, _), parseShape(_, _, _), assignAll(_, _, _), parseItems(_, _, _)

\* simpleObjectParser(objectShape)(input): for each key of the shape that
\* the input has, the parser's output, or the raw value when the key has no
\* parser; a key the input lacks is left out; the first failure is thrown.
parseShape(shape, input, result) ==
  IF Len(shape) = 0 THEN Obj(result)
  ELSE LET key == shape[1].key
           parser == shape[1].parser
       IN IF key \notin DOMAIN input THEN parseShape(Tail(shape), input, result)
          ELSE LET parsed == IF parser = NULL THEN input[key]
                             ELSE Apply(parser, input[key])
               IN IF IsError(parsed) THEN parsed
                  ELSE parseShape(Tail(shape), input,
                                  [k \in DOMAIN result \cup {key} |->
                                     IF k = key THEN parsed ELSE result[k]])

simpleObjectParser(shape, input) ==
  IF ~IsObj(input) THEN Throw("TypeError", "Expected an object")
  ELSE parseShape(shape, input.obj, EmptyObject)

\* Mutant of the loop: a parser that fails is skipped.
RECURSIVE assignAllSkipsFailures(_, _, _)
assignAllSkipsFailures(parsers, input, result) ==
  IF Len(parsers) = 0 THEN Obj(result)
  ELSE LET parsed == Apply(parsers[1], input)
       IN IF IsError(parsed) THEN assignAllSkipsFailures(Tail(parsers), input, result)
          ELSE assignAllSkipsFailures(Tail(parsers), input, ObjectAssign(result, parsed))

\* combinedParser(input): result = {}; each parser of combinedParsers runs
\* on the same input and its output is assigned onto result.
assignAll(parsers, input, result) ==
  IF Len(parsers) = 0 THEN Obj(result)
  ELSE LET parsed == Apply(parsers[1], input)
       IN IF IsError(parsed) THEN parsed
          ELSE assignAll(Tail(parsers), input, ObjectAssign(result, parsed))

combinedParser(fields, input) ==
  assignAll(combinedParsers(fields), input, EmptyObject)

\* simpleArrayParser(combinedParser)(input): the item parser on every item,
\* in order; the first failure is thrown.
parseItems(fields, items, done) ==
  IF Len(items) = 0 THEN List(done)
  ELSE LET parsed == combinedParser(fields, items[1])
       IN IF IsError(parsed) THEN parsed
          ELSE parseItems(fields, Tail(items), Append(done, parsed))

arrayParser(fields, input) == parseItems(fields, input.list, <<>>)

\* Mutant of the dispatch: the Array.isArray test is left out.
projectionParserObjectsOnly(fields, input) == combinedParser(fields, input)

\* projectionParser(input): operates against either an array or one item.
projectionParser(fields, input) ==
  IF ~IsList(input) THEN combinedParser(fields, input)
  ELSE arrayParser(fields, input)

\* Calling a parser function.
Apply(p, x) ==
  IF "fn" \in DOMAIN p THEN LeafApply(p.fn, x)
  ELSE IF "wraps" \in DOMAIN p THEN LeafApply(p.wraps, x)
  ELSE IF "first" \in DOMAIN p THEN
    LET y == Apply(p.first, x) IN IF IsError(y) THEN y ELSE Apply(p.second, y)
  ELSE IF "shape" \in DOMAIN p THEN simpleObjectParser(p.shape, x)
  ELSE projectionParser(p.projection, x)

\* What the caller of a node does with a raw response: no parser means the
\* raw value is passed through.
Parse(node, raw) == IF node.parser = NULL THEN raw ELSE Apply(node.parser, raw)

\* ------------------------------------------------------------------ project
\* A projection map is the sequence of its entries [key, value] in
\* Object.keys order.  The argument of project is [map |-> m] or
\* [factory |-> name], a function of this.root.
FactoryApply(name, q) ==
  IF name = "ellipsis" THEN
    << [key |-> "...", value |-> [boolean |-> TRUE]],
       [key |-> "OTHER", value |-> [builder |-> any(q, "name", UNDEFINED)]] >>
  ELSE
    << [key |-> "name", value |-> [boolean |-> TRUE]],
       [key |-> "msrp", value |-> [builder |-> any(q, "msrp", [fn |-> "Inc"])]],
       [key |-> "price", value |-> [builder |-> any(q, "price", UNDEFINED)]] >>

ProjectionMapOf(this, projectionMapArg) ==
  IF "factory" \in DOMAIN projectionMapArg
  THEN FactoryApply(projectionMapArg.factory, root(this))
  ELSE projectionMapArg.map

NormalizeEntry(e) == normalizeProjectionField(e.key, e.value)

LacksParser(f) == f.parser = NULL
QuotedKey(f) == "\"" \o f.key \o "\""
FieldQuery(f) == f.query

MissingValidationPrefix ==
  "[groq-builder] Because 'validationRequired' is enabled, "
    \o "every field must have validation (like q.string()), "
    \o "but the following fields are missing it: "

\* Mutant of the error: only the first offending field is named.
MissingValidationErrorFirstOnly(invalidFields) ==
  Throw("TypeError", MissingValidationPrefix \o QuotedKey(invalidFields[1]))

\* (the message's backquotes around q.string() are left out)
MissingValidationError(invalidFields) ==
  Throw("TypeError",
        MissingValidationPrefix \o Join(Map(invalidFields, QuotedKey), ","))

Reverse(s) == [i \in 1..Len(s) |-> s[Len(s) + 1 - i]]

\* Mutant of the query assembly: the fields are emitted last to first.
ProjectionQueryReversed(this, fields) ==
  LET newLine == indentation(this).newLine
      space == indentation(this).space
  IN " {" \o newLine \o space
       \o Join(Reverse(Map(fields, FieldQuery)), "," \o newLine \o space)
       \o newLine \o "}"

ProjectionQuery(this, fields) ==
  LET newLine == indentation(this).newLine
      space == indentation(this).space
  IN " {" \o newLine \o space
       \o Join(Map(fields, FieldQuery), "," \o newLine \o space)
       \o newLine \o "}"

\* Mutant of the order of the checks: the strictness check comes before the
\* unexpected-value error.
projectStrictnessFirst(this, projectionMapArg) ==
  LET projectionMap == ProjectionMapOf(this, projectionMapArg)
      normalized == Map(projectionMap, NormalizeEntry)
      thrown == SelectSeq(normalized, IsError)
      fields == SelectSeq(normalized, notNull)
      invalidFields == SelectSeq(fields, LAMBDA f : ~IsError(f) /\ LacksParser(f))
  IN IF this.options.validationRequired /\ Len(invalidFields) > 0
       THEN MissingValidationError(invalidFields)
     ELSE IF Len(thrown) > 0 THEN thrown[1]
     ELSE chain(this, ProjectionQuery(this, fields), createProjectionParser(fields))

project(this, projectionMapArg) ==
  LET projectionMap == ProjectionMapOf(this, projectionMapArg)
      normalized == Map(projectionMap, NormalizeEntry)
      thrown == SelectSeq(normalized, IsError)
      fields == SelectSeq(normalized, notNull)
      invalidFields == SelectSeq(fields, LacksParser)
  IN IF Len(thrown) > 0 THEN thrown[1]
     ELSE IF this.options.validationRequired /\ Len(invalidFields) > 0
       THEN MissingValidationError(invalidFields)
     ELSE chain(this, ProjectionQuery(this, fields), createProjectionParser(fields))

\* ------------------------------------------------------------ input sets
IndentStyles == {"", "  "}

Options == [indent : IndentStyles, validationRequired : BOOLEAN]

DefaultOptions == [indent |-> "", validationRequired |-> FALSE]

\* createGroqBuilder(options): the root node.
createGroqBuilder(options) == GroqBuilder("", NULL, options)

Inc == [fn |-> "Inc"]
Dbl == [fn |-> "Dbl"]

Entry(key, value) == [key |-> key, value |-> value]

\* A conditional branch as q.conditional builds it: `<condition> => { name }`
\* whose parser is the projection parser of the inner projection.
ConditionalBuilder(condition, leaf) ==
  project(any(createGroqBuilder(DefaultOptions), condition \o " =>", UNDEFINED),
          [map |-> <<Entry("name", leaf)>>])

BName == any(createGroqBuilder(DefaultOptions), "name", UNDEFINED)
BNameParsed == any(createGroqBuilder(DefaultOptions), "name", Inc)
BSlug == any(createGroqBuilder(DefaultOptions), "slug.current", UNDEFINED)
BCondA == ConditionalBuilder("a", Dbl)
BCondB == ConditionalBuilder("b", Inc)

Pair(path, parser) == [array |-> <<Str(path), parser>>]
Triple(path, parser, extra) == [array |-> <<Str(path), parser, extra>>]

Keys == {"name", "OTHER", "[Conditional] a", "[Conditional] b"}

FieldConfigs ==
  {[builder |-> b] : b \in {BName, BNameParsed, BSlug, BCondA, BCondB}}
    \cup {[string |-> "name"], [string |-> "slug.current"]}
    \cup {[boolean |-> TRUE], [boolean |-> FALSE]}
    \cup {Pair("name", Inc), Pair("price", [parseObj |-> "Dbl"]),
          Triple("name", Inc, Num(7))}
    \cup {Inc, [parseObj |-> "Dbl"]}
    \cup {[other |-> "number"], [other |-> "object"], [other |-> "undefined"]}

\* Projection maps: sequences of entries with distinct keys.
RECURSIVE MapsOfLen(_, _)
MapsOfLen(entries, n) ==
  IF n = 0 THEN {<<>>}
  ELSE UNION {{Append(m, e) :
                 e \in {x \in entries : \A i \in 1..Len(m) : m[i].key # x.key}} :
              m \in MapsOfLen(entries, n - 1)}

MapsUpTo(entries, n) == UNION {MapsOfLen(entries, k) : k \in 0..n}

RECURSIVE ListsOfLen(_, _)
ListsOfLen(items, n) ==
  IF n = 0 THEN {<<>>}
  ELSE {Append(l, x) : l \in ListsOfLen(items, n - 1), x \in items}

ListsUpTo(items, n) == UNION {ListsOfLen(items, k) : k \in 0..n}

\* ============================================================ the builder
\* nodes: the heap of GroqBuilder objects, in order of construction.
\* log:   for each node, the call that constructed it.
\* err:   what the last call threw (NONE when it returned).

Fragments == {"*", "[0]"}

AnyParsers == {UNDEFINED, NULL, Inc, Dbl}

ProjectArgs(heap) ==
  {[factory |-> "ellipsis"], [factory |-> "parser"],
   [map |-> <<>>],
   [map |-> <<Entry("name", [boolean |-> TRUE])>>],
   [map |-> <<Entry("price", [other |-> "number"])>>]}
    \cup {[map |-> <<Entry("OTHER", [builder |-> heap[j]])>>] : j \in 1..Len(heap)}

\* Mutant of the constructor: the receiver's state is overwritten too.
constructorMutatesThis(heap, this, internal) ==
  Append([heap EXCEPT ![this] = internal], internal)

\* new GroqBuilder({...}): one more object; the receiver and every other
\* object stay as they are.
constructor(heap, this, internal) == Append(heap, internal)

Init ==
  /\ \E options \in {o \in Options : o.indent = ""} :
       nodes = <<createGroqBuilder(options)>>
  /\ log = <<[op |-> "createGroqBuilder"]>>
  /\ err = NONE
  /\ call = NONE
  /\ ret = NONE

CallAny(i, query, parse) ==
  /\ Len(nodes) < MaxNodes
  /\ nodes' = constructor(nodes, i, any(nodes[i], query, parse))
  /\ log' = Append(log, [op |-> "any", base |-> i, query |-> query, parse |-> parse])
  /\ err' = NONE
  /\ UNCHANGED <<call, ret>>

CallProject(i, projectionMapArg) ==
  /\ LET result == project(nodes[i], projectionMapArg)
     IN IF IsError(result)
        THEN /\ err' = result
             /\ UNCHANGED <<nodes, log>>
        ELSE /\ Len(nodes) < MaxNodes
             /\ nodes' = constructor(nodes, i, result)
             /\ log' = Append(log, [op |-> "project", base |-> i,
                                    arg |-> projectionMapArg])
             /\ err' = NONE
  /\ UNCHANGED <<call, ret>>

Next ==
  \/ \E i \in 1..Len(nodes), query \in Fragments, parse \in AnyParsers :
       CallAny(i, query, parse)
  \/ \E i \in 1..Len(nodes) : \E arg \in ProjectArgs(nodes) :
       CallProject(i, arg)

Spec == Init /\ [][Next]_vars


\* ---------------------------------------------------------------- C1..C3
Created(n) == log[n]
IsAnyNode(n) == n \in 1..Len(nodes) /\ Created(n).op = "any"
IsProjectNode(n) == n \in 1..Len(nodes) /\ Created(n).op = "project"
Base(n) == nodes[Created(n).base]

\* The maximal run of any() calls that ends in node n: the node it started
\* from and the fragments f1..fk, concatenated in call order.
RECURSIVE AnyTrail(_)
AnyTrail(n) ==
  IF Created(n).op = "any"
  THEN LET t == AnyTrail(Created(n).base)
       IN [start |-> t.start, text |-> t.text \o Created(n).query, calls |-> t.calls + 1]
  ELSE [start |-> n, text |-> "", calls |-> 0]

\* C1: N.any(f, p), which is N.chain(f, p), returns a node whose query is
\* N.query followed by f and whose parser is chainParsers(N.parser, p), p
\* being null when omitted; after any() calls f1..fk from a base node the
\* query is base.query + f1 + ... + fk in call order.
C1_ChainAppendsFragment ==
  \A n \in 1..Len(nodes) : IsAnyNode(n) =>
    /\ nodes[n].query = Base(n).query \o Created(n).query
    /\ nodes[n].parser =
         chainParsers(Base(n).parser,
                      IF Created(n).parse = UNDEFINED THEN NULL ELSE Created(n).parse)
    /\ nodes[n].query = nodes[AnyTrail(n).start].query \o AnyTrail(n).text

\* Two any() calls in a row, the second with its parser omitted, from a node
\* that has a parser and a non-empty query.
C1_Witness ==
  \E n \in 1..Len(nodes) :
    /\ IsAnyNode(n) /\ AnyTrail(n).calls >= 2
    /\ Created(n).parse = UNDEFINED
    /\ Base(n).parser # NULL
    /\ Created(n).query # Created(Created(n).base).query

RECURSIVE Ancestors(_)
Ancestors(n) ==
  IF Created(n).op = "createGroqBuilder" THEN {}
  ELSE {Created(n).base} \cup Ancestors(Created(n).base)

NodesKept == \A i \in 1..Len(nodes) : i <= Len(nodes') /\ nodes'[i] = nodes[i]

QueriesExtendAncestors ==
  \A n \in 1..Len(nodes) : \A a \in Ancestors(n) :
    IsPrefix(nodes[a].query, nodes[n].query)

\* Every projection is what project gives for its base node and its own
\* argument, whatever else has been built from that base before or since.
ProjectionsIndependent ==
  \A n \in 1..Len(nodes) : IsProjectNode(n) =>
    nodes[n] = project(Base(n), Created(n).arg)

\* C2: nodes are immutable and query text is append-only: no call, failing
\* or not, changes a node that exists; every descendant's query starts with
\* its ancestor's query; projections from one base do not depend on each
\* other.
C2_NodesImmutable ==
  /\ [](QueriesExtendAncestors /\ ProjectionsIndependent)
  /\ [][NodesKept]_vars

\* Two different projections of the root, and then a call that failed.
C2_Witness ==
  /\ err # NONE
  /\ \E a, b \in 1..Len(nodes) :
       /\ IsProjectNode(a) /\ IsProjectNode(b)
       /\ Created(a).base = 1 /\ Created(b).base = 1
       /\ nodes[a] # nodes[b]

RawSamples == {Num(1), Num(2), Str("x")}

\* b(a(x)): a failure of a is thrown before b runs.
Then(a, b, x) == LET y == Apply(a, x) IN IF IsError(y) THEN y ELSE Apply(b, y)

Given(n) == IF Created(n).parse = UNDEFINED THEN NULL ELSE Created(n).parse

\* C3: the parser composed by chain from first = N.parser and second = p is
\* null when both are null, the other parser itself when exactly one is
\* null, and otherwise maps every raw x to second(first(x)).
C3_ParserComposition ==
  \A n \in 1..Len(nodes) : IsAnyNode(n) =>
    LET first == Base(n).parser
        second == Given(n)
    IN /\ (first = NULL /\ second = NULL) => nodes[n].parser = NULL
       /\ (first = NULL /\ second # NULL) => nodes[n].parser = second
       /\ (first # NULL /\ second = NULL) => nodes[n].parser = first
       /\ (first # NULL /\ second # NULL) =>
            /\ nodes[n].parser # NULL
            /\ \A x \in RawSamples : Apply(nodes[n].parser, x) = Then(first, second, x)

\* Both parsers present, and the order matters on some raw value.
C3_Witness ==
  \E n \in 1..Len(nodes) :
    /\ IsAnyNode(n)
    /\ Base(n).parser # NULL /\ Given(n) # NULL
    /\ \E x \in RawSamples : Then(Base(n).parser, Given(n), x)
                               # Then(Given(n), Base(n).parser, x)

\* ============================================ normalizeProjectionField alone
\* call: the arguments [key, value]; ret: what the call returned or threw.
InitNormalize ==
  /\ call \in {Entry(key, value) : key \in Keys, value \in FieldConfigs}
  /\ ret = NONE
  /\ nodes = <<>> /\ log = <<>> /\ err = NONE

Normalize ==
  /\ ret = NONE
  /\ ret' = normalizeProjectionField(call.key, call.value)
  /\ UNCHANGED <<nodes, log, err, call>>

NextNormalize == Normalize

SpecNormalize == InitNormalize /\ [][NextNormalize]_vars

\* -------------------------------------------------------------------- C4
HasExpression(value) ==
  "builder" \in DOMAIN value \/ "string" \in DOMAIN value \/ "array" \in DOMAIN value

\* The field-path expression a configuration carries.
Expression(value) ==
  IF "builder" \in DOMAIN value THEN value.builder.query
  ELSE IF "string" \in DOMAIN value THEN value.string
  ELSE value.array[1].str

Elided(key, expression) ==
  IF expression = key THEN key ELSE Quoted(key, expression)

EmitsBareKey(value) == value = [boolean |-> TRUE] \/ isParser(value)

\* C4 as stated: for every key, a configuration that carries a field-path
\* expression emits the bare key when the expression equals the key and
\* "<key>": <expression> otherwise; true and a standalone parser emit the
\* bare key.
C4_AsStated ==
  ret # NONE =>
    /\ HasExpression(call.value) => ret.query = Elided(call.key, Expression(call.value))
    /\ EmitsBareKey(call.value) => ret.query = call.key

\* C4, amended: as stated, except that a nested builder under a conditional
\* key emits the nested query verbatim, whether or not it equals the key.
C4_ShorthandElision ==
  ret # NONE =>
    /\ (HasExpression(call.value)
          /\ ~("builder" \in DOMAIN call.value /\ isConditional(call.key)))
         => ret.query = Elided(call.key, Expression(call.value))
    /\ ("builder" \in DOMAIN call.value /\ isConditional(call.key))
         => ret.query = call.value.builder.query
    /\ EmitsBareKey(call.value) => ret.query = call.key

\* A nested builder whose query is its key has been normalized to the bare
\* key.
C4_Witness ==
  /\ ret # NONE
  /\ "builder" \in DOMAIN call.value
  /\ call.value.builder.query = call.key
  /\ ret.query = "name"

\* ========================================================== project alone
\* call: [this, arg], the receiver and the argument; ret: the node returned
\* or the error thrown.
ProjectKeys == {"name", "OTHER", "[Conditional] a"}

ProjectConfigs ==
  {[builder |-> b] : b \in {BName, BNameParsed, BCondA}}
    \cup {[string |-> "name"], [boolean |-> TRUE], [boolean |-> FALSE]}
    \cup {Pair("price", [parseObj |-> "Dbl"]), Triple("name", Inc, Num(7))}
    \cup {Inc, [other |-> "number"]}

ProjectEntries == {Entry(key, value) : key \in ProjectKeys, value \in ProjectConfigs}

\* Receivers: `*` on a fresh builder, and a projection of it whose fields
\* carry parsers (so that the receiver has a parser of its own).
Star(options) == any(createGroqBuilder(options), "*", UNDEFINED)

BaseNodes ==
  UNION {{Star(options), project(Star(options), [map |-> <<Entry("name", Inc)>>])} :
           options \in Options}

ProjectCalls ==
  {[this |-> this, arg |-> [map |-> m]] :
     this \in BaseNodes, m \in MapsUpTo(ProjectEntries, MaxFields)}
    \cup {[this |-> this, arg |-> [factory |-> f]] :
            this \in BaseNodes, f \in {"ellipsis", "parser"}}

InitProject ==
  /\ call \in ProjectCalls
  /\ ret = NONE
  /\ nodes = <<>> /\ log = <<>> /\ err = NONE

Project ==
  /\ ret = NONE
  /\ ret' = project(call.this, call.arg)
  /\ UNCHANGED <<nodes, log, err, call>>

NextProject == Project

SpecProject == InitProject /\ [][NextProject]_vars

\* ---------------------------------------------------------------- C5..C8
Returned == ret # NONE /\ ~IsError(ret)
Threw == ret # NONE /\ IsError(ret)

TheMap == ProjectionMapOf(call.this, call.arg)

NotFalse(e) == e.value # [boolean |-> FALSE]
Fragment(e) == normalizeProjectionField(e.key, e.value).query
EntryParser(e) == normalizeProjectionField(e.key, e.value).parser
EntryKey(e) == e.key
Unexpected(e) == IsError(normalizeProjectionField(e.key, e.value))
EntryLacksParser(e) == NotFalse(e) /\ EntryParser(e) = NULL

NewLine == IF call.this.options.indent = "" THEN " " ELSE "\n"
Separator == "," \o NewLine \o call.this.options.indent

BraceBlock(fragments) ==
  " {" \o NewLine \o call.this.options.indent \o Join(fragments, Separator)
    \o NewLine \o "}"

\* C5: the brace block holds the normalized fragments of the entries whose
\* configuration is not false, one per entry, comma-joined in map order;
\* false is the only configuration that removes an entry.
C5_FieldsInMapOrder ==
  Returned =>
    /\ ret.query = call.this.query \o BraceBlock(Map(SelectSeq(TheMap, NotFalse), Fragment))
    /\ \A i \in 1..Len(TheMap) :
         NotFalse(TheMap[i]) <=> normalizeProjectionField(TheMap[i].key, TheMap[i].value) # NULL

\* A map of two entries, the first one false, has been compiled.
C5_Witness ==
  /\ Returned
  /\ Len(TheMap) = 2
  /\ ~NotFalse(TheMap[1]) /\ NotFalse(TheMap[2])
  /\ Fragment(TheMap[2]) # TheMap[2].key

IsSuffix(s, t) == Len(s) <= Len(t) /\ SubSeq(t, Len(t) - Len(s) + 1, Len(t)) = s

Normalizes == \A i \in 1..Len(TheMap) : ~Unexpected(TheMap[i])

\* C6: with validationRequired enabled, a map that normalizes and has a
\* field without a parser makes project throw one TypeError that names all
\* such fields in map order, and no node is returned; with a parser on every
\* field, or the flag disabled, project returns a node.
C6_StrictnessNamesEveryField ==
  (ret # NONE /\ Normalizes) =>
    LET offending == SelectSeq(TheMap, EntryLacksParser)
    IN IF call.this.options.validationRequired /\ Len(offending) > 0
       THEN /\ IsError(ret)
            /\ ret.error = "TypeError"
            /\ IsSuffix(": " \o Join(Map(Map(offending, EntryKey),
                                         LAMBDA k : "\"" \o k \o "\""), ","),
                        ret.message)
       ELSE ~IsError(ret)

\* Strictness has rejected a map with two fields that lack a parser.
C6_Witness ==
  /\ Threw /\ Normalizes
  /\ ret.error = "TypeError"
  /\ Len(SelectSeq(TheMap, EntryLacksParser)) = 2

\* The legal configurations: a builder node, a string, a boolean, a
\* [path, parser] pair, a parser.
IsPairConfig(value) ==
  /\ "array" \in DOMAIN value
  /\ Len(value.array) = 2
  /\ "str" \in DOMAIN value.array[1]
  /\ isParser(value.array[2])

IsLegalConfig(value) ==
  \/ "builder" \in DOMAIN value
  \/ "string" \in DOMAIN value
  \/ "boolean" \in DOMAIN value
  \/ IsPairConfig(value)
  \/ isParser(value)

TypeOf(value) == IF "array" \in DOMAIN value THEN "object" ELSE value.other

UnexpectedValueError(key, value) ==
  Throw("Error", "Unexpected value for projection key \"" \o key \o "\": \""
                   \o TypeOf(value) \o "\"")

\* C7: a configuration that is none of builder node, string, boolean, array
\* pair, parser makes project fail with an error that names the key and the
\* typeof of the value (the first such entry in map order); no node is
\* returned.
C7_UnexpectedValueRejected ==
  ret # NONE =>
    \A i \in 1..Len(TheMap) :
      (/\ ~IsLegalConfig(TheMap[i].value)
       /\ \A j \in 1..(i - 1) : IsLegalConfig(TheMap[j].value))
        => ret = UnexpectedValueError(TheMap[i].key, TheMap[i].value)

NoFieldParser == \A i \in 1..Len(TheMap) : NotFalse(TheMap[i]) => EntryParser(TheMap[i]) = NULL

\* C8 as stated: if no field of the map carries a parser, the parser of the
\* node project returns is null, and the fragment is still emitted.
C8_AsStated ==
  (Returned /\ NoFieldParser) =>
    /\ ret.parser = NULL
    /\ ret.query = call.this.query \o BraceBlock(Map(SelectSeq(TheMap, NotFalse), Fragment))

\* C8, amended: if no field of the map carries a parser (the empty map
\* included), project chains a null parser, so the returned node's parser is
\* the receiver's parser unchanged (null when the receiver has none), and
\* the fragment is still emitted.
C8_NoParserKeepsReceiverParser ==
  (Returned /\ NoFieldParser) =>
    /\ ret.parser = call.this.parser
    /\ ret.query = call.this.query \o BraceBlock(Map(SelectSeq(TheMap, NotFalse), Fragment))
    /\ Len(TheMap) = 0 => ret.query = call.this.query \o " {" \o NewLine
                                        \o call.this.options.indent \o NewLine \o "}"

\* A map with two parser-less fields compiled on a receiver without parser.
C8_Witness ==
  /\ Returned /\ NoFieldParser
  /\ Len(SelectSeq(TheMap, NotFalse)) = 2
  /\ call.this.parser = NULL /\ ret.parser = NULL

\* ================================================= the projection's parser
\* call: [this, map, raw]: the receiver, the projection map and the raw
\* response; ret: what the parser of this.project(map) makes of raw.
ParseKeys == {"name", "price", "[Conditional] a", "[Conditional] b"}

ParseConfigs ==
  {[boolean |-> TRUE], Inc, Pair("msrp", Dbl), [builder |-> BCondA], [builder |-> BCondB]}

ParseEntries == {Entry(key, value) : key \in ParseKeys, value \in ParseConfigs}

RawObjects ==
  {Obj([name |-> Num(1)]),
   Obj([name |-> Num(2), price |-> Num(1)]),
   Obj([name |-> Str("x")])}

Raws == {Num(1)} \cup RawObjects \cup {List(l) : l \in ListsUpTo(RawObjects, MaxList)}

InitParse ==
  /\ call \in {[this |-> Star(DefaultOptions), map |-> m, raw |-> raw] :
                 m \in MapsUpTo(ParseEntries, MaxFields), raw \in Raws}
  /\ ret = NONE
  /\ nodes = <<>> /\ log = <<>> /\ err = NONE

ParseResponse ==
  /\ ret = NONE
  /\ ret' = Parse(project(call.this, [map |-> call.map]), call.raw)
  /\ UNCHANGED <<nodes, log, err, call>>

NextParse == ParseResponse

SpecParse == InitParse /\ [][NextParse]_vars

\* --------------------------------------------------------------- C9, C10
TheFields == SelectSeq(Map(call.map, NormalizeEntry), notNull)
HasCombinedParser == \E i \in 1..Len(TheFields) : TheFields[i].parser # NULL

\* The object logic: the combined parser on one raw object.
ObjectLogic(o) == combinedParser(TheFields, o)

FirstFailure(items) ==
  ObjectLogic(items[CHOOSE i \in 1..Len(items) :
                      /\ IsError(ObjectLogic(items[i]))
                      /\ \A j \in 1..(i - 1) : ~IsError(ObjectLogic(items[j]))])

\* C9: the parser P built by project maps a raw single object o to the
\* object logic applied to o, and a raw list [o1..on] to
\* [objectLogic(o1), ..., objectLogic(on)], same length, same order (and
\* fails as the first failing item does).
C9_ArrayObjectTransparency ==
  (ret # NONE /\ HasCombinedParser) =>
    IF ~IsList(call.raw) THEN ret = ObjectLogic(call.raw)
    ELSE LET items == call.raw.list
         IN IF \E i \in 1..Len(items) : IsError(ObjectLogic(items[i]))
            THEN ret = FirstFailure(items)
            ELSE /\ IsList(ret)
                 /\ Len(ret.list) = Len(items)
                 /\ \A i \in 1..Len(items) : ret.list[i] = ObjectLogic(items[i])

\* A list of two different objects has been parsed into two different
\* objects, neither of them the raw one.
C9_Witness ==
  /\ ret # NONE /\ HasCombinedParser
  /\ IsList(call.raw) /\ IsList(ret)
  /\ Len(ret.list) = 2
  /\ ret.list[1] # ret.list[2]
  /\ ret.list[1] # call.raw.list[1]

IsConditionalParser(i) ==
  /\ i \in 1..Len(call.map)
  /\ isConditional(call.map[i].key)
  /\ NotFalse(call.map[i])
  /\ EntryParser(call.map[i]) # NULL

ConditionalOutput(i) == Apply(EntryParser(call.map[i]), call.raw)

Overlap(i, j) ==
  IF IsObj(ConditionalOutput(i)) /\ IsObj(ConditionalOutput(j))
  THEN DOMAIN ConditionalOutput(i).obj \cap DOMAIN ConditionalOutput(j).obj
  ELSE {}

\* C10: when two conditional fields' parsers produce objects with a common
\* key, the combined parser's result holds for that key the value produced
\* by the field declared later in the map.
C10_LaterConditionalWins ==
  (ret # NONE /\ IsObj(call.raw) /\ ~IsError(ret)) =>
    \A i, j \in 1..Len(call.map) :
      (i < j /\ IsConditionalParser(i) /\ IsConditionalParser(j)
         /\ \A l \in (j + 1)..Len(call.map) : ~IsConditionalParser(l))
        => \A k \in Overlap(i, j) : ret.obj[k] = ConditionalOutput(j).obj[k]

\* Two conditional fields gave different values for the same key, and the
\* result holds the later one's.
C10_Witness ==
  /\ ret # NONE /\ IsObj(call.raw) /\ IsObj(ret)
  /\ IsConditionalParser(1) /\ IsConditionalParser(2)
  /\ "name" \in Overlap(1, 2)
  /\ ConditionalOutput(1).obj["name"] # ConditionalOutput(2).obj["name"]
  /\ ret.obj["name"] = ConditionalOutput(2).obj["name"]

\* ------------------------------------------------------------- C11..C15
IsNormalEntry(i) ==
  /\ i \in 1..Len(call.map)
  /\ ~isConditional(call.map[i].key)
  /\ NotFalse(call.map[i])

\* The keys that the conditional parsers of the map write into the result.
MergedKeys ==
  UNION {DOMAIN OwnProperties(ConditionalOutput(i)) :
           i \in {j \in 1..Len(call.map) : IsConditionalParser(j)}}

NormalKeys == {call.map[i].key : i \in {j \in 1..Len(call.map) : IsNormalEntry(j)}}

\* What the object shape makes of the raw value of entry i's key.
ShapeValue(i) ==
  LET e == call.map[i]
      rawValue == call.raw.obj[e.key]
  IN IF EntryParser(e) = NULL THEN rawValue ELSE Apply(EntryParser(e), rawValue)

\* C11 as stated: when at least one field carries a parser, the combined
\* parser applied to a raw object returns, for each non-conditional projected
\* key with a parser, that parser's output on the raw value of the key; for
\* each such key without a parser, the raw value unchanged; and no projected
\* key that the raw object lacks.
C11_AsStated ==
  (ret # NONE /\ HasCombinedParser /\ IsObj(call.raw) /\ ~IsError(ret)) =>
    /\ IsObj(ret)
    /\ \A i \in 1..Len(call.map) :
         IsNormalEntry(i) =>
           IF call.map[i].key \in DOMAIN call.raw.obj
           THEN /\ call.map[i].key \in DOMAIN ret.obj
                /\ ret.obj[call.map[i].key] = ShapeValue(i)
           ELSE call.map[i].key \notin DOMAIN ret.obj

\* C11, amended: the same, for every non-conditional projected key that no
\* conditional parser of the map writes; a key that a conditional parser's
\* output also holds carries the conditional parser's value instead.  The
\* result has no other keys than the projected keys the raw object has and
\* the keys merged by conditional parsers.
C11_ObjectShapeParsing ==
  (ret # NONE /\ HasCombinedParser /\ IsObj(call.raw) /\ ~IsError(ret)) =>
    /\ IsObj(ret)
    /\ DOMAIN ret.obj = (NormalKeys \cap DOMAIN call.raw.obj) \cup MergedKeys
    /\ \A i \in 1..Len(call.map) :
         (IsNormalEntry(i) /\ call.map[i].key \in DOMAIN call.raw.obj \ MergedKeys)
           => ret.obj[call.map[i].key] = ShapeValue(i)

\* {name: true, price: Inc} applied to {name: 2, price: 1} has returned
\* {name: 2, price: 2}.
C11_Witness ==
  /\ ret # NONE /\ IsObj(call.raw) /\ IsObj(ret)
  /\ Len(call.map) = 2
  /\ call.map[1] = Entry("name", [boolean |-> TRUE])
  /\ call.map[2] = Entry("price", Inc)
  /\ call.raw = Obj([name |-> Num(2), price |-> Num(1)])
  /\ ret = Obj([name |-> Num(2), price |-> Num(2)])

\* ------------------------------------------------------------------- C12
\* The same configuration with another parser attached: a nested builder
\* gains or loses its parser, a [path, parser] pair and a standalone parser
\* get a different parser; the path and everything else stay.
OtherParser(parser) == IF parser = Inc THEN Dbl ELSE Inc

WithOtherParser(value) ==
  IF "builder" \in DOMAIN value THEN
    [builder |-> [value.builder EXCEPT
                    !.parser = IF value.builder.parser = NULL THEN Inc ELSE NULL]]
  ELSE IF "array" \in DOMAIN value THEN
    [array |-> [value.array EXCEPT ![2] = OtherParser(value.array[2])]]
  ELSE IF isParser(value) THEN OtherParser(value)
  ELSE value

\* TheMap with the parsers of the entries at the positions of S changed.
Reparsed(S) ==
  [i \in 1..Len(TheMap) |->
     IF i \in S THEN Entry(TheMap[i].key, WithOtherParser(TheMap[i].value))
     ELSE TheMap[i]]

IsParsedShorthand(e) ==
  /\ "builder" \in DOMAIN e.value
  /\ e.value.builder.parser # NULL
  /\ e.value.builder.query = e.key
  /\ ~isConditional(e.key)

\* C12: two projection maps that differ only in the parsers attached to
\* their fields, projected from the same base node, yield the same query
\* text; and a map whose fields are nested builders with a parser and a query
\* equal to their key emits the bare keys.
C12_QueryIgnoresParsers ==
  Returned =>
    /\ \A S \in SUBSET (1..Len(TheMap)) :
         LET other == project(call.this, [map |-> Reparsed(S)])
         IN ~IsError(other) => other.query = ret.query
    /\ (\A i \in 1..Len(TheMap) : NotFalse(TheMap[i]) => IsParsedShorthand(TheMap[i]))
         => ret.query = call.this.query
                          \o BraceBlock(Map(SelectSeq(TheMap, NotFalse), EntryKey))

\* { name: <builder of query name with a parser> } has been compiled to
\* `{ name }`, as the same map without the parser is.
C12_Witness ==
  /\ Returned
  /\ call.this.options.indent = ""
  /\ TheMap = <<Entry("name", [builder |-> BNameParsed])>>
  /\ ret.query = call.this.query \o " { name }"
  /\ project(call.this, [map |-> <<Entry("name", [builder |-> BName])>>]).query = ret.query
  /\ ret.parser # call.this.parser

\* ------------------------------------------------------------------- C13
Contains(sub, s) ==
  \E i \in 1..(Len(s) - Len(sub) + 1) : SubSeq(s, i, i + Len(sub) - 1) = sub

\* The node whose parser the call under check runs.
TheNode == project(call.this, [map |-> call.map])

IsConditionalBuilder(i) ==
  /\ i \in 1..Len(call.map)
  /\ isConditional(call.map[i].key)
  /\ "builder" \in DOMAIN call.map[i].value

\* The fragment of an entry: the nested query as it is for a conditional
\* nested builder, the normalizer's fragment for every other entry.
VerbatimFragment(e) ==
  IF isConditional(e.key) /\ "builder" \in DOMAIN e.value THEN e.value.builder.query
  ELSE Fragment(e)

LaterConditionalWrites(i, k) ==
  \E j \in (i + 1)..Len(call.map) :
    IsConditionalParser(j) /\ k \in DOMAIN OwnProperties(ConditionalOutput(j))

\* C13: a field with a conditional key and a nested builder emits the nested
\* node's query verbatim, and when all conditional keys of the map hold
\* nested builders no conditional key occurs in the query; the field is not in
\* the object shape; its parser is run on the whole raw input object and
\* every key of its output is in the result, with the output's value unless a
\* later conditional parser writes the key; the conditional key is never a
\* key of the parsed result.
C13_ConditionalBuilderField ==
  ret # NONE =>
    /\ TheNode.query = call.this.query
         \o " { " \o Join(Map(SelectSeq(call.map, NotFalse), VerbatimFragment), ", ") \o " }"
    /\ \A i \in 1..Len(call.map) :
         IsConditionalBuilder(i) =>
           /\ (\A j \in 1..Len(call.map) :
                 isConditional(call.map[j].key) => IsConditionalBuilder(j))
                => ~Contains(call.map[i].key, TheNode.query)
           /\ \A n \in 1..Len(objectShape(TheFields)) :
                objectShape(TheFields)[n].key # call.map[i].key
           /\ IsObj(ret) => call.map[i].key \notin DOMAIN ret.obj
           /\ (IsObj(call.raw) /\ IsObj(ret) /\ IsConditionalParser(i)) =>
                \A k \in DOMAIN OwnProperties(ConditionalOutput(i)) :
                  /\ k \in DOMAIN ret.obj
                  /\ ~LaterConditionalWrites(i, k)
                       => ret.obj[k] = OwnProperties(ConditionalOutput(i))[k]

\* { "[Conditional] a": <a => { name } doubling name>, price: Inc } applied
\* to {name: 2, price: 1} has returned {name: 4, price: 2}.
C13_Witness ==
  /\ ret = Obj([name |-> Num(4), price |-> Num(2)])
  /\ call.raw = Obj([name |-> Num(2), price |-> Num(1)])
  /\ call.map = <<Entry("[Conditional] a", [builder |-> BCondA]), Entry("price", Inc)>>
  /\ TheNode.query = "* { a => { name }, price }"

\* ========================================= parsing behind a parsed receiver
\* call: [this, map, raw] as above, with receivers that have a parser of
\* their own (the node's parser is then the receiver's parser followed by
\* the projection's) and raw objects on which either stage can fail.
ComposedKeys == {"name", "price", "[Conditional] a"}

ComposedConfigs == {[boolean |-> TRUE], Inc, [builder |-> BCondA]}

ComposedEntries ==
  {Entry(key, value) : key \in ComposedKeys, value \in ComposedConfigs}

ComposedReceivers ==
  {Star(DefaultOptions),
   project(Star(DefaultOptions),
           [map |-> <<Entry("name", [boolean |-> TRUE]), Entry("price", Inc)>>])}

ComposedObjects ==
  {Obj([name |-> Num(2), price |-> Num(1)]),
   Obj([name |-> Str("x")]),
   Obj([name |-> Num(1), price |-> Str("x")])}

ComposedRaws ==
  ComposedObjects \cup {List(l) : l \in ListsUpTo(ComposedObjects, MaxList)}

InitComposed ==
  /\ call \in {[this |-> this, map |-> m, raw |-> raw] :
                 this \in ComposedReceivers,
                 m \in MapsUpTo(ComposedEntries, MaxFields),
                 raw \in ComposedRaws}
  /\ ret = NONE
  /\ nodes = <<>> /\ log = <<>> /\ err = NONE

ParseComposed ==
  /\ ret = NONE
  /\ ret' = Parse(project(call.this, [map |-> call.map]), call.raw)
  /\ UNCHANGED <<nodes, log, err, call>>

NextComposed == ParseComposed

SpecComposed == InitComposed /\ [][NextComposed]_vars

\* ------------------------------------------------------------------- C14
\* What the receiver's parser hands to the projection's parser.
FirstStage == Parse(call.this, call.raw)

ItemsOf(v) == IF IsList(v) THEN v.list ELSE <<v>>

\* The failures of the map's parsers on one object: a field parser on the
\* raw value of its key, a conditional parser on the whole object.
Failures(item) ==
  {v \in {Apply(EntryParser(call.map[i]), item.obj[call.map[i].key]) :
            i \in {j \in 1..Len(call.map) :
                     /\ IsNormalEntry(j)
                     /\ EntryParser(call.map[j]) # NULL
                     /\ call.map[j].key \in DOMAIN item.obj}}
          \cup {Apply(EntryParser(call.map[i]), item) :
                   i \in {j \in 1..Len(call.map) : IsConditionalParser(j)}} :
     IsError(v)}

\* C14: if the receiver's parser fails on the raw input, the node's parser
\* fails with that error; otherwise, if a field parser or a conditional
\* parser of the map fails on an object of the input (the single object, or
\* an item of the list), the node's parser fails with an error of the first
\* such object; a failure is never replaced by a result.
C14_FailuresPropagate ==
  ret # NONE =>
    IF IsError(FirstStage) THEN ret = FirstStage
    ELSE LET items == ItemsOf(FirstStage)
             failing == {i \in 1..Len(items) : Failures(items[i]) # {}}
         IN failing # {} =>
              /\ IsError(ret)
              /\ \E i \in failing :
                   /\ \A j \in failing : i <= j
                   /\ ret \in Failures(items[i])

\* Behind a receiver with a parser, a list of two objects whose second
\* object fails in a field parser of the map has made the node's parser
\* fail, the receiver's parser having passed.
C14_Witness ==
  /\ ret # NONE /\ IsError(ret)
  /\ call.this.parser # NULL
  /\ ~IsError(FirstStage)
  /\ IsList(call.raw) /\ Len(call.raw.list) = 2
  /\ Failures(FirstStage.list[1]) = {}
  /\ ret \in Failures(FirstStage.list[2])

\* ------------------------------------------------------------------- C15
\* The failures of the non-conditional fields' parsers on the raw object.
ShapeFailures ==
  {v \in {ShapeValue(i) :
            i \in {j \in 1..Len(call.map) :
                     IsNormalEntry(j) /\ call.map[j].key \in DOMAIN call.raw.obj}} :
     IsError(v)}

\* C15: the object-shape parser runs first and the conditional parsers
\* after it, wherever the conditional fields stand in the map: a key of a
\* conditional parser's output that is also a non-conditional projected key
\* holds the conditional parser's value in the result (that of the last
\* conditional parser writing it), not the non-conditional field's parsed
\* value; and when a non-conditional field's parser fails, its error is the
\* one thrown, whatever the conditional parsers do.
C15_ConditionalOverridesField ==
  (ret # NONE /\ IsObj(call.raw) /\ HasCombinedParser) =>
    /\ ShapeFailures # {} => ret \in ShapeFailures
    /\ IsObj(ret) =>
         \A i \in 1..Len(call.map) :
           IsConditionalParser(i) =>
             \A k \in DOMAIN OwnProperties(ConditionalOutput(i)) \cap NormalKeys :
               ~LaterConditionalWrites(i, k)
                 => ret.obj[k] = OwnProperties(ConditionalOutput(i))[k]

\* The conditional field is declared before the field `name`: the object
\* parser makes 3 of the raw 2, the conditional parser 4, and the result
\* holds 4.
C15_Witness ==
  /\ IsObj(ret) /\ IsObj(call.raw)
  /\ call.map = <<Entry("[Conditional] a", [builder |-> BCondA]), Entry("name", Inc)>>
  /\ call.raw.obj["name"] = Num(2)
  /\ ShapeValue(2) = Num(3)
  /\ ConditionalOutput(1) = Obj([name |-> Num(4)])
  /\ ret.obj["name"] = Num(4)

\* ------------------------------------------------------------------- C16
FirstUnexpected(i) ==
  /\ i \in 1..Len(TheMap)
  /\ Unexpected(TheMap[i])
  /\ \A j \in 1..(i - 1) : ~Unexpected(TheMap[j])

\* C16: every entry is normalized before the strictness check: a map with
\* an unexpected-value entry makes project fail with the unexpected-value
\* error of the first such key in map order, also when validationRequired is
\* enabled and the map has fields without a parser; and an entry whose
\* configuration is false is never named in the missing-parser error, nor
\* does it make project fail.
C16_NormalizeBeforeStrictness ==
  ret # NONE =>
    /\ \A i \in 1..Len(TheMap) :
         FirstUnexpected(i) => ret = UnexpectedValueError(TheMap[i].key, TheMap[i].value)
    /\ \A i \in 1..Len(TheMap) :
         (Threw /\ ~NotFalse(TheMap[i]))
           => ~Contains("\"" \o TheMap[i].key \o "\"", ret.message)
    /\ (Normalizes /\ \A i \in 1..Len(TheMap) : ~EntryLacksParser(TheMap[i]))
         => Returned

\* Under validationRequired, a map whose first entry lacks a parser and
\* whose second entry is a number has been rejected for the number.
C16_Witness ==
  /\ Threw
  /\ call.this.options.validationRequired
  /\ Len(TheMap) = 2
  /\ EntryLacksParser(TheMap[1])
  /\ FirstUnexpected(2)
  /\ ret = UnexpectedValueError(TheMap[2].key, TheMap[2].value)
  /\ ret.error = "Error"

====
